---- MODULE Spec2Model ----
(***************************************************************************)
(* Model of mintSources/RepositoryInformation.py: the one-line and DEB822  *)
(* repository descriptors, their parsers, formatters and converters.       *)
(*                                                                         *)
(* Text is a sequence of symbols.  The symbols " ", "#", "[", "]", "=",    *)
(* ",", "-" and "_" are the characters the code inspects; every other      *)
(* symbol ("deb", "stable", "http://", ...) stands for a fixed run of      *)
(* ordinary characters.  Concatenation, splitting, stripping, replacing    *)
(* and regular-expression matching are carried out on these sequences as   *)
(* the code carries them out on str.                                       *)
(*                                                                         *)
(* A Python value is a record [t, v]: t is the type name and v a sequence  *)
(* of texts (empty for None, one text for a str, the items for a list).    *)
(***************************************************************************)
EXTENDS Integers, Sequences, FiniteSets, TLC

\* ------------------------------------------------------------ Python values
None == [t |-> "NoneType", v |-> <<>>]
Str(s) == [t |-> "str", v |-> <<s>>]
List(l) == [t |-> "list", v |-> l]
Bool(b) == [t |-> "bool", v |-> << <<IF b THEN "True" ELSE "False">> >>]
PyInt(n) == [t |-> "int", v |-> << <<n>> >>]

\* bool(x): Python truth value, as used by `not self.enabled`
Truthy(x) ==
    CASE x.t = "NoneType" -> FALSE
      [] x.t = "bool" -> x = Bool(TRUE)
      [] x.t = "str" -> x.v[1] # <<>>
      [] x.t = "list" -> x.v # <<>>
      [] OTHER -> x.v[1] # <<"0">>

\* ------------------------------------------------------------ str helpers
Whitespace == {" "}

\* str.isspace(): non-empty and whitespace only
isspace(s) == s # <<>> /\ \A i \in 1..Len(s) : s[i] \in Whitespace

RECURSIVE str_split(_, _, _)
\* str.split(): maximal runs of non-whitespace
str_split(s, cur, acc) ==
    IF s = <<>> THEN (IF cur = <<>> THEN acc ELSE Append(acc, cur))
    ELSE IF Head(s) \in Whitespace
         THEN str_split(Tail(s), <<>>, IF cur = <<>> THEN acc ELSE Append(acc, cur))
         ELSE str_split(Tail(s), Append(cur, Head(s)), acc)

split(s) == str_split(s, <<>>, <<>>)

RECURSIVE sep_split(_, _, _, _)
\* str.split(sep): every piece between separators, empty ones included
sep_split(s, sep, cur, acc) ==
    IF s = <<>> THEN Append(acc, cur)
    ELSE IF Head(s) = sep
         THEN sep_split(Tail(s), sep, <<>>, Append(acc, cur))
         ELSE sep_split(Tail(s), sep, Append(cur, Head(s)), acc)

split_on(s, sep) == sep_split(s, sep, <<>>, <<>>)

RECURSIVE join(_, _)
\* sep.join(items)
join(sep, items) ==
    IF items = <<>> THEN <<>>
    ELSE IF Len(items) = 1 THEN items[1]
    ELSE items[1] \o sep \o join(sep, Tail(items))

RECURSIVE lstrip(_)
lstrip(s) == IF s # <<>> /\ Head(s) \in Whitespace THEN lstrip(Tail(s)) ELSE s

RECURSIVE rstrip(_)
rstrip(s) ==
    IF s # <<>> /\ s[Len(s)] \in Whitespace THEN rstrip(SubSeq(s, 1, Len(s) - 1)) ELSE s

\* str.strip()
strip(s) == rstrip(lstrip(s))

\* str.replace(old, new) for one-character old and new
replace(s, old, new) == [i \in 1..Len(s) |-> IF s[i] = old THEN new ELSE s[i]]

\* ------------------------------------------------------------ re: \[.+]
Max(S) == CHOOSE x \in S : \A y \in S : y <= x
Min(S) == CHOOSE x \in S : \A y \in S : x <= y

\* options_regex.search(line): the leftmost "[" that has a "]" at least two
\* places further on; the greedy .+ runs to the last "]" of the line.
options_regex_search(line) ==
    LET closes == {j \in 1..Len(line) : line[j] = "]"}
        last == IF closes = {} THEN 0 ELSE Max(closes)
        opens == {i \in 1..Len(line) : line[i] = "[" /\ i + 2 <= last}
    IN IF opens = {} THEN [found |-> FALSE, start |-> 0, end |-> 0]
       ELSE [found |-> TRUE, start |-> Min(opens), end |-> last]

\* options_regex.sub('', line): the match ends at the last "]", so there is
\* never a second match to remove
options_regex_sub(line) ==
    LET m == options_regex_search(line)
    IN IF m.found
       THEN SubSeq(line, 1, m.start - 1) \o SubSeq(line, m.end + 1, Len(line))
       ELSE line

\* ------------------------------------------------------------ urllib
\* urllib.parse.urlparse raises ValueError ("Invalid IPv6 URL") when the
\* network location after "//" holds one bracket without the other.
urlparse_raises(tok) ==
    IF tok # <<>> /\ Head(tok) = "http://"
    THEN LET rest == Tail(tok)
             stops == {i \in 1..Len(rest) : rest[i] = "/debian"}
             netloc == IF stops = {} THEN rest ELSE SubSeq(rest, 1, Min(stops) - 1)
             has(c) == \E i \in 1..Len(netloc) : netloc[i] = c
         IN has("[") # has("]")
    ELSE FALSE

\* ------------------------------------------------------------ descriptors
deb == <<"deb">>
deb_src == <<"deb", "-", "src">>

\* the optional attributes in the order __init__ assigns them
OptionalFields ==
    <<"architectures", "languages", "targets", "pdiffs", "by_hash",
      "allow_insecure", "allow_weak", "allow_downgrade_to_insecure", "trusted",
      "signed_by", "check_valid_until", "valid_until_min", "valid_until_max",
      "check_date", "date_max_future", "inrelease_path">>

\* _BaseRepositoryInformation.is_enabled
is_enabled(self) == IF self.enabled = None THEN Bool(TRUE) ELSE self.enabled

\* ------------------------------------------------------------ outcomes
Return(x) == [exc |-> "", none |-> FALSE, val |-> x]
ReturnNone(dflt) == [exc |-> "", none |-> TRUE, val |-> dflt]
Raise(e, dflt) == [exc |-> e, none |-> FALSE, val |-> dflt]
Returned(o) == o.exc = "" /\ ~o.none

\* LineRepositoryInformation.__init__ with every argument None
NoLineInfo ==
    [repo_type |-> None, uri |-> None, suite |-> None, components |-> None,
     enabled |-> None, architectures |-> None, languages |-> None,
     targets |-> None, pdiffs |-> None, by_hash |-> None,
     allow_insecure |-> None, allow_weak |-> None,
     allow_downgrade_to_insecure |-> None, trusted |-> None,
     signed_by |-> None, check_valid_until |-> None, valid_until_min |-> None,
     valid_until_max |-> None, check_date |-> None, date_max_future |-> None,
     inrelease_path |-> None]

\* ------------------------------------------------------------ from_line
\* dict.get(key) on the options dict, kept as the list of its items in
\* insertion order; a later item with the same key replaces an earlier one
dict_get(d, key) ==
    LET hits == {i \in 1..Len(d) : d[i].k = key}
    IN IF hits = {} THEN None ELSE List(d[Max(hits)].v)

\* LineRepositoryInformation.from_line
from_line(line) ==
    LET m == options_regex_search(line)
        line1 == IF m.found THEN options_regex_sub(line) ELSE line
        vals == IF m.found THEN split(SubSeq(line, m.start + 1, m.end - 1)) ELSE <<>>
        noeq == \E i \in 1..Len(vals) : Len(split_on(vals[i], "=")) < 2
        options == [i \in 1..Len(vals) |->
                      [k |-> split_on(vals[i], "=")[1],
                       v |-> split_on(split_on(vals[i], "=")[2], ",")]]
        hash == line1 # <<>> /\ Head(line1) = "#"
        line2 == IF hash THEN Tail(line1) ELSE line1
        enabled == ~hash
        parts == split(line2)
    IN IF m.found /\ noeq THEN Raise("IndexError", NoLineInfo)
       ELSE IF Len(parts) < 4 THEN ReturnNone(NoLineInfo)
       ELSE IF parts[1] \notin {deb, deb_src} THEN ReturnNone(NoLineInfo)
       ELSE IF urlparse_raises(parts[2]) THEN ReturnNone(NoLineInfo)
       ELSE IF ~m.found THEN Raise("AttributeError", NoLineInfo)
       ELSE Return(
         [repo_type |-> Str(parts[1]),
          uri |-> Str(parts[2]),
          suite |-> Str(parts[3]),
          components |-> List(SubSeq(parts, 4, Len(parts))),
          enabled |-> Bool(enabled),
          architectures |-> dict_get(options, <<"arch">>),
          languages |-> dict_get(options, <<"lang">>),
          targets |-> dict_get(options, <<"target">>),
          pdiffs |-> dict_get(options, <<"pdiffs">>),
          by_hash |-> dict_get(options, <<"by", "-", "hash">>),
          allow_insecure |-> dict_get(options, <<"allow", "-", "insecure">>),
          allow_weak |-> dict_get(options, <<"allow", "-", "weak">>),
          allow_downgrade_to_insecure |->
              dict_get(options, <<"allow", "-", "downgrade", "-", "to", "-", "insecure">>),
          trusted |-> dict_get(options, <<"trusted">>),
          signed_by |-> dict_get(options, <<"signed", "-", "by">>),
          check_valid_until |-> dict_get(options, <<"check", "-", "valid", "-", "until">>),
          valid_until_min |-> dict_get(options, <<"valid", "-", "until", "-", "min">>),
          valid_until_max |-> dict_get(options, <<"valid", "-", "until", "-", "max">>),
          check_date |-> dict_get(options, <<"check", "-", "date">>),
          date_max_future |-> dict_get(options, <<"date", "-", "max", "-", "future">>),
          inrelease_path |-> None])

\* LineRepositoryInformation.from_lists; an exception of from_line ends the loop
\* and reaches the caller
RECURSIVE from_lists_loop(_, _)
from_lists_loop(value, repositories) ==
    IF value = <<>> THEN Return(repositories)
    ELSE IF isspace(Head(value)) THEN from_lists_loop(Tail(value), repositories)
    ELSE LET repository == from_line(Head(value))
         IN IF repository.exc # "" THEN Raise(repository.exc, <<>>)
            ELSE IF repository.none THEN from_lists_loop(Tail(value), repositories)
            ELSE from_lists_loop(Tail(value), Append(repositories, repository.val))

from_lists(value) == from_lists_loop(value, <<>>)

\* ------------------------------------------------------------ to_line
\* the keys of self.__dict__ as text
AttributeName ==
    [architectures |-> <<"architectures">>,
     languages |-> <<"languages">>,
     targets |-> <<"targets">>,
     pdiffs |-> <<"pdiffs">>,
     by_hash |-> <<"by", "_", "hash">>,
     allow_insecure |-> <<"allow", "_", "insecure">>,
     allow_weak |-> <<"allow", "_", "weak">>,
     allow_downgrade_to_insecure |-> <<"allow", "_", "downgrade", "_", "to", "_", "insecure">>,
     trusted |-> <<"trusted">>,
     signed_by |-> <<"signed", "_", "by">>,
     check_valid_until |-> <<"check", "_", "valid", "_", "until">>,
     valid_until_min |-> <<"valid", "_", "until", "_", "min">>,
     valid_until_max |-> <<"valid", "_", "until", "_", "max">>,
     check_date |-> <<"check", "_", "date">>,
     date_max_future |-> <<"date", "_", "max", "_", "future">>,
     inrelease_path |-> <<"inrelease", "_", "path">>]

\* LineRepositoryInformation._name_map, as its items
name_map ==
    << <<(<<"arch">>), (<<"architectures">>)>>,
       <<(<<"architectures">>), (<<"arch">>)>>,
       <<(<<"lang">>), (<<"languages">>)>>,
       <<(<<"languages">>), (<<"lang">>)>>,
       <<(<<"target">>), (<<"targets">>)>>,
       <<(<<"targets">>), (<<"target">>)>> >>

\* the name an option is written under: remapped through _name_map; the result
\* of name.replace('_', '-') is computed and dropped, str being immutable
option_name(name) ==
    LET hits == {i \in 1..Len(name_map) : name_map[i][1] = name}
        remapped == IF hits = {} THEN name ELSE name_map[Min(hits)][2]
        replaced == replace(remapped, "_", "-")
    IN remapped

\* str + value raises TypeError unless value is a str
stringified_value(value) ==
    IF value.t = "list" THEN Return(join(<<",">>, value.v))
    ELSE IF value.t = "str" THEN Return(value.v[1])
    ELSE Raise("TypeError", <<>>)

RECURSIVE option_string(_, _)
\* the loop of _format_options over the options that are set
option_string(self, names) ==
    IF names = <<>> THEN <<>>
    ELSE option_name(AttributeName[Head(names)]) \o <<"=">>
           \o stringified_value(self[Head(names)]).val \o <<" ">>
           \o option_string(self, Tail(names))

\* LineRepositoryInformation.to_line._format_options
format_options(self) ==
    LET options == SelectSeq(OptionalFields, LAMBDA k : self[k] # None)
    IN IF Len(options) <= 0 THEN Return(<<>>)
       ELSE IF \E i \in 1..Len(options) : stringified_value(self[options[i]]).exc # ""
            THEN Raise("TypeError", <<>>)
            ELSE Return(<<" ", "[">> \o strip(option_string(self, options)) \o <<"]", " ">>)

\* sep.join(x): x a list of str, or a str joined symbol by symbol
py_join(sep, x) ==
    IF x.t = "list" THEN Return(join(sep, x.v))
    ELSE IF x.t = "str" THEN Return(join(sep, [i \in 1..Len(x.v[1]) |-> <<x.v[1][i]>>]))
    ELSE Raise("TypeError", <<>>)

\* LineRepositoryInformation.to_line; repo_type, uri and suite are str
to_line(self) ==
    LET joined_components == py_join(<<" ">>, self.components)
        disabler == IF ~Truthy(self.enabled) THEN <<"#", " ">> ELSE <<>>
        options == format_options(self)
    IN IF joined_components.exc # "" THEN Raise(joined_components.exc, <<>>)
       ELSE IF options.exc # "" THEN Raise(options.exc, <<>>)
       ELSE Return(disabler \o self.repo_type.v[1] \o options.val \o self.uri.v[1]
                     \o <<" ">> \o self.suite.v[1] \o <<" ">> \o joined_components.val)

\* ------------------------------------------------------------ DEB822
\* the keys of a paragraph; container.get(key) is None for a key it lacks
Deb822Keys ==
    {"Types", "URIs", "Suites", "Components", "Enabled", "Architectures",
     "Languages", "Targets", "PDiffs", "By-Hash", "Allow-Insecure", "Allow-Weak",
     "Allow-Downgrade-To-Insecure", "Trusted", "Signed-By", "Check-Valid-Until",
     "Valid-Until-Min", "Valid-Until-Max", "Check-Date", "Date-Max-Future"}

\* deb822.Deb822()
EmptyDeb822 == [k \in Deb822Keys |-> None]

\* Deb822RepositoryInformation.__init__ with every argument None
NoDeb822Info ==
    [repo_types |-> None, uris |-> None, suites |-> None, components |-> None,
     enabled |-> None, architectures |-> None, languages |-> None,
     targets |-> None, pdiffs |-> None, by_hash |-> None,
     allow_insecure |-> None, allow_weak |-> None,
     allow_downgrade_to_insecure |-> None, trusted |-> None,
     signed_by |-> None, check_valid_until |-> None, valid_until_min |-> None,
     valid_until_max |-> None, check_date |-> None, date_max_future |-> None,
     inrelease_path |-> None]

\* Deb822RepositoryInformation.from_deb822._get_values
get_values(container, key) ==
    LET something == container[key]
    IN IF something = None THEN Return(None)
       ELSE IF something.t # "str" THEN Raise("TypeError", None)
       ELSE Return(List(split(something.v[1])))

\* Deb822RepositoryInformation.from_deb822
from_deb822(value) ==
    IF \E k \in {"Types", "URIs", "Suites", "Components", "Architectures",
                 "Languages", "Targets"} : get_values(value, k).exc # ""
    THEN Raise("TypeError", NoDeb822Info)
    ELSE Return(
      [repo_types |-> get_values(value, "Types").val,
       uris |-> get_values(value, "URIs").val,
       suites |-> get_values(value, "Suites").val,
       components |-> get_values(value, "Components").val,
       enabled |-> value["Enabled"],
       architectures |-> get_values(value, "Architectures").val,
       languages |-> get_values(value, "Languages").val,
       targets |-> get_values(value, "Targets").val,
       pdiffs |-> value["PDiffs"],
       by_hash |-> value["By-Hash"],
       allow_insecure |-> value["Allow-Insecure"],
       allow_weak |-> value["Allow-Weak"],
       allow_downgrade_to_insecure |-> value["Allow-Downgrade-To-Insecure"],
       trusted |-> value["Trusted"],
       signed_by |-> value["Signed-By"],
       check_valid_until |-> value["Check-Valid-Until"],
       valid_until_min |-> value["Valid-Until-Min"],
       valid_until_max |-> value["Valid-Until-Max"],
       check_date |-> value["Check-Date"],
       date_max_future |-> value["Date-Max-Future"],
       inrelease_path |-> None])

\* Deb822RepositoryInformation.from_sources over the paragraphs that
\* deb822.Deb822.iter_paragraphs yields; from_deb822 never returns None
RECURSIVE from_sources_loop(_, _)
from_sources_loop(value, repositories) ==
    IF value = <<>> THEN Return(repositories)
    ELSE LET repository == from_deb822(Head(value))
         IN IF repository.exc # "" THEN Raise(repository.exc, <<>>)
            ELSE IF repository.none THEN from_sources_loop(Tail(value), repositories)
            ELSE from_sources_loop(Tail(value), Append(repositories, repository.val))

from_sources(value) == from_sources_loop(value, <<>>)

\* Deb822RepositoryInformation.from_line_information
from_line_information(value) ==
    [repo_types |-> List(<<value.repo_type.v[1]>>),
     uris |-> List(<<value.uri.v[1]>>),
     suites |-> List(<<value.suite.v[1]>>),
     components |-> value.components,
     enabled |-> value.enabled,
     architectures |-> value.architectures,
     languages |-> value.languages,
     targets |-> value.targets,
     pdiffs |-> value.pdiffs,
     by_hash |-> value.by_hash,
     allow_insecure |-> value.allow_insecure,
     allow_weak |-> value.allow_weak,
     allow_downgrade_to_insecure |-> value.allow_downgrade_to_insecure,
     trusted |-> value.trusted,
     signed_by |-> value.signed_by,
     check_valid_until |-> value.check_valid_until,
     valid_until_min |-> value.valid_until_min,
     valid_until_max |-> value.valid_until_max,
     check_date |-> value.check_date,
     date_max_future |-> value.date_max_future,
     inrelease_path |-> None]

\* Deb822RepositoryInformation.to_deb822.write_if_present
write_if_present(container, key, val) ==
    IF val = None THEN Return(container)
    ELSE IF val.t = "str" THEN Return([container EXCEPT ![key] = val])
    ELSE IF val.t = "list" THEN Return([container EXCEPT ![key] = Str(join(<<" ">>, val.v))])
    ELSE IF val.t = "bool"
         THEN Return([container EXCEPT ![key] = Str(IF val = Bool(TRUE) THEN <<"yes">> ELSE <<"no">>)])
         ELSE Raise("TypeError", container)

\* the write_if_present calls of to_deb822, in order
WrittenIfPresent ==
    << <<"Enabled", "enabled">>,
       <<"Architectures", "architectures">>,
       <<"Targets", "targets">>,
       <<"PDiffs", "pdiffs">>,
       <<"By-Hash", "by_hash">>,
       <<"Allow-Insecure", "allow_insecure">>,
       <<"Allow-Weak", "allow_weak">>,
       <<"Allow-Downgrade-To-Insecure", "allow_downgrade_to_insecure">>,
       <<"Trusted", "trusted">>,
       <<"Signed-By", "signed_by">>,
       <<"Check-Valid-Until", "check_valid_until">>,
       <<"Valid-Until-Min", "valid_until_min">>,
       <<"Valid-Until-Max", "valid_until_max">>,
       <<"Check-Date", "check_date">>,
       <<"Date-Max-Future", "date_max_future">> >>

RECURSIVE write_all(_, _, _)
write_all(self, container, todo) ==
    IF todo = <<>> THEN Return(container)
    ELSE LET written == write_if_present(container, Head(todo)[1], self[Head(todo)[2]])
         IN IF written.exc # "" THEN written
            ELSE write_all(self, written.val, Tail(todo))

\* Deb822RepositoryInformation.to_deb822
to_deb822(self) ==
    LET types == py_join(<<" ">>, self.repo_types)
        uris == py_join(<<" ">>, self.uris)
        suites == py_join(<<" ">>, self.suites)
        components == py_join(<<" ">>, self.components)
    IN IF types.exc # "" \/ uris.exc # "" \/ suites.exc # "" \/ components.exc # ""
       THEN Raise("TypeError", EmptyDeb822)
       ELSE write_all(self,
                      [EmptyDeb822 EXCEPT !["Types"] = Str(types.val),
                                          !["URIs"] = Str(uris.val),
                                          !["Suites"] = Str(suites.val),
                                          !["Components"] = Str(components.val)],
                      WrittenIfPresent)

\* ------------------------------------------------------------ conversion
\* iter(x): the items of a list, the symbols of a str, TypeError otherwise
iterate(x) ==
    IF x.t = "list" THEN Return(x.v)
    ELSE IF x.t = "str" THEN Return([i \in 1..Len(x.v[1]) |-> <<x.v[1][i]>>])
    ELSE Raise("TypeError", <<>>)

\* one LineRepositoryInformation(...) of from_deb822_information
line_of(value, repo_type, uri, suite) ==
    [repo_type |-> Str(repo_type),
     uri |-> Str(uri),
     suite |-> Str(suite),
     components |-> value.components,
     enabled |-> value.enabled,
     architectures |-> value.architectures,
     languages |-> value.languages,
     targets |-> value.targets,
     pdiffs |-> value.pdiffs,
     by_hash |-> value.by_hash,
     allow_insecure |-> value.allow_insecure,
     allow_weak |-> value.allow_weak,
     allow_downgrade_to_insecure |-> value.allow_downgrade_to_insecure,
     trusted |-> value.trusted,
     signed_by |-> value.signed_by,
     check_valid_until |-> value.check_valid_until,
     valid_until_min |-> value.valid_until_min,
     valid_until_max |-> value.valid_until_max,
     check_date |-> value.check_date,
     date_max_future |-> value.date_max_future,
     inrelease_path |-> None]

\* suites_loop with `return` in place of `yield`: only the first suite is produced
suites_loop_first(value, repo_type, uri, suites) ==
    IF suites = <<>> THEN <<>> ELSE <<line_of(value, repo_type, uri, Head(suites))>>

RECURSIVE suites_loop(_, _, _, _)
\* the innermost loop of from_deb822_information
suites_loop(value, repo_type, uri, suites) ==
    IF suites = <<>> THEN <<>>
    ELSE <<line_of(value, repo_type, uri, Head(suites))>>
           \o suites_loop(value, repo_type, uri, Tail(suites))

RECURSIVE uris_loop(_, _, _)
\* the middle loop of from_deb822_information
uris_loop(value, repo_type, uris) ==
    IF uris = <<>> THEN <<>>
    ELSE suites_loop(value, repo_type, Head(uris), iterate(value.suites).val)
           \o uris_loop(value, repo_type, Tail(uris))

RECURSIVE types_loop(_, _)
\* the outer loop of from_deb822_information
types_loop(value, repo_types) ==
    IF repo_types = <<>> THEN <<>>
    ELSE uris_loop(value, Head(repo_types), iterate(value.uris).val)
           \o types_loop(value, Tail(repo_types))

\* list(LineRepositoryInformation.from_deb822_information(value)): a loop over
\* a value that cannot be iterated raises TypeError once the loop is entered
from_deb822_information(value) ==
    LET repo_types == iterate(value.repo_types)
        uris == iterate(value.uris)
        suites == iterate(value.suites)
    IN IF repo_types.exc # "" THEN Raise("TypeError", <<>>)
       ELSE IF repo_types.val = <<>> THEN Return(<<>>)
       ELSE IF uris.exc # "" THEN Raise("TypeError", <<>>)
       ELSE IF uris.val = <<>> THEN Return(<<>>)
       ELSE IF suites.exc # "" THEN Raise("TypeError", <<>>)
       ELSE Return(types_loop(value, repo_types.val))

\* ------------------------------------------------------------ inputs
MaxComponents == 2
MaxValues == 2
MaxOptions == 1
MaxLines == 2
MaxSet == 1
MaxTypes == 2
MaxUris == 2
MaxSuites == 2
MaxParagraphs == 1

Uri == <<"http://", "example.com", "/debian">>
Uri2 == <<"http://", "example.org", "/debian">>
Stable == <<"stable">>
Testing == <<"testing">>

\* the first n of a repeating run of names
Cycle(names, n) == [i \in 1..n |-> names[((i - 1) % Len(names)) + 1]]

Components(n) == Cycle(<< <<"main">>, <<"contrib">> >>, n)

\* the option keys of a one-line entry (sources.list(5)), as from_line reads them
OptionKeys ==
    << <<"arch">>, <<"lang">>, <<"target">>, <<"pdiffs">>, <<"by", "-", "hash">>,
       <<"allow", "-", "insecure">>, <<"allow", "-", "weak">>,
       <<"allow", "-", "downgrade", "-", "to", "-", "insecure">>, <<"trusted">>,
       <<"signed", "-", "by">>, <<"check", "-", "valid", "-", "until">>,
       <<"valid", "-", "until", "-", "min">>, <<"valid", "-", "until", "-", "max">>,
       <<"check", "-", "date">>, <<"date", "-", "max", "-", "future">> >>

Values(n) == Cycle(<< <<"amd64">>, <<"i386">> >>, n)

\* key=value1,value2,... with n values
OptionToken(k, n) ==
    OptionKeys[((k - 1) % Len(OptionKeys)) + 1] \o <<"=">> \o join(<<",">>, Values(n))

\* the texts of up to MaxOptions option tokens, space separated: the keys are
\* consecutive ones of OptionKeys
OptionBlocks ==
    {join(<<" ">>, [i \in 1..c |-> OptionToken(k + i - 1, n)]) :
        k \in 1..Len(OptionKeys), c \in 1..MaxOptions, n \in 1..MaxValues}

Disablers == {<<>>, <<"#", " ">>}

\* well-formed entries without an options block
PlainLines ==
    {d \o t \o <<" ">> \o Uri \o <<" ">> \o Stable \o <<" ">> \o join(<<" ">>, Components(n)) :
        d \in Disablers, t \in {deb, deb_src}, n \in 1..MaxComponents}

\* well-formed entries with an options block of recognized keys
OptionLines ==
    {d \o t \o <<" ", "[">> \o b \o <<"]", " ">> \o Uri \o <<" ">> \o Stable
       \o <<" ">> \o join(<<" ">>, Components(n)) :
        d \in Disablers, t \in {deb, deb_src},
        b \in OptionBlocks, n \in 1..MaxComponents}

WellFormedLines == PlainLines \cup OptionLines

\* entries from_line is to reject: no component, an unrecognized type
RejectedLines ==
    {d \o t \o <<" ">> \o Uri \o <<" ">> \o Stable : d \in Disablers, t \in {deb, deb_src}}
    \cup {d \o <<"ftp", " ">> \o Uri \o <<" ">> \o Stable \o <<" ", "main">> : d \in Disablers}
    \cup {<<"deb", " ", "[", "arch", "=", "amd64", "]", " ">> \o Uri \o <<" ">> \o Stable,
          <<"ftp", " ", "[", "arch", "=", "amd64", "]", " ">> \o Uri \o <<" ">> \o Stable
             \o <<" ", "main">>,
          <<"deb", " ", "http://", "[", "example.com", "/debian", " ", "stable", " ", "main">>,
          <<>>}

BlankLines == {<<" ">>, <<" ", " ">>}

\* an options block with a token that has no "="
BrokenLines == {<<"deb", " ", "[", "arch", "]", " ">> \o Uri \o <<" ">> \o Stable \o <<" ", "main">>}

Lines == WellFormedLines \cup RejectedLines \cup BlankLines \cup BrokenLines

\* the lines a sources.list is made of in the batches given to from_lists
BatchLines ==
    {<<"deb", " ">> \o Uri \o <<" ">> \o Stable \o <<" ", "main">>,
     <<"#", " ", "deb", " ">> \o Uri \o <<" ">> \o Stable \o <<" ", "main">>,
     <<"deb", " ", "[", "arch", "=", "amd64", "]", " ">> \o Uri \o <<" ">> \o Stable
        \o <<" ", "main">>,
     <<"deb", "-", "src", " ", "[", "trusted", "=", "yes", "]", " ">> \o Uri \o <<" ">>
        \o Stable \o <<" ", "main", " ", "contrib">>,
     <<"deb", " ">> \o Uri \o <<" ">> \o Stable,
     <<"deb", " ", "[", "arch", "=", "amd64", "]", " ">> \o Uri \o <<" ">> \o Stable,
     <<"ftp", " ", "[", "arch", "=", "amd64", "]", " ">> \o Uri \o <<" ">> \o Stable
        \o <<" ", "main">>,
     <<" ">>}

RECURSIVE SeqsUpTo(_, _)
\* the sequences over S of length at most n
SeqsUpTo(S, n) ==
    IF n = 0 THEN {<<>>}
    ELSE SeqsUpTo(S, n - 1)
           \cup {Append(q, x) : q \in {r \in SeqsUpTo(S, n - 1) : Len(r) = n - 1}, x \in S}

\* a value of the type __init__ declares for the attribute
TypedValue(k) ==
    CASE k \in {"architectures", "languages", "targets"} -> List(Values(2))
      [] k \in {"pdiffs", "allow_insecure", "allow_weak", "allow_downgrade_to_insecure",
                "trusted", "check_valid_until", "check_date"} -> Bool(TRUE)
      [] k \in {"valid_until_min", "valid_until_max", "date_max_future"} -> PyInt("3600")
      [] OTHER -> Str(<<"yes">>)

RECURSIVE SetFrom(_, _, _)
\* base with the c optional attributes from the i-th on set
SetFrom(base, i, c) ==
    IF c = 0 THEN base
    ELSE LET k == OptionalFields[((i - 1) % Len(OptionalFields)) + 1]
         IN SetFrom([base EXCEPT ![k] = TypedValue(k)], i + 1, c - 1)

\* base with at most n further optional attributes set
Settings(base, n) == {SetFrom(base, i, c) : i \in 1..Len(OptionalFields), c \in 0..n}

Enableds == {None, Bool(TRUE), Bool(FALSE)}

\* LineRepositoryInformation(...) as a caller may construct it
LineInfos ==
    UNION {Settings([NoLineInfo EXCEPT !.repo_type = Str(t), !.uri = Str(Uri),
                                       !.suite = Str(Stable),
                                       !.components = List(Components(n)),
                                       !.enabled = e], MaxSet) :
             t \in {deb, deb_src}, n \in 1..MaxComponents, e \in Enableds}

\* Deb822RepositoryInformation(...) as a caller may construct it
Deb822Infos ==
    UNION {Settings([NoDeb822Info EXCEPT !.repo_types = List(Cycle(<<deb, deb_src>>, t)),
                                         !.uris = List(Cycle(<<Uri, Uri2>>, u)),
                                         !.suites = List(Cycle(<<Stable, Testing>>, s)),
                                         !.components = List(Components(MaxComponents)),
                                         !.enabled = e], MaxSet) :
             t \in 0..MaxTypes, u \in 0..MaxUris, s \in 0..MaxSuites, e \in Enableds}

\* the paragraphs deb822.Deb822.iter_paragraphs yields: any of the required
\* fields may be missing, Enabled is yes, no or missing
Paragraphs ==
    {[k \in Deb822Keys |->
        CASE k = "Types" -> IF "Types" \in has THEN Str(<<"deb", " ", "deb", "-", "src">>) ELSE None
          [] k = "URIs" -> IF "URIs" \in has THEN Str(Uri \o <<" ">> \o Uri2) ELSE None
          [] k = "Suites" -> IF "Suites" \in has THEN Str(Stable) ELSE None
          [] k = "Components" -> IF "Components" \in has THEN Str(<<"main", " ", "contrib">>) ELSE None
          [] k = "Enabled" -> e
          [] k = "Languages" -> Str(<<"en">>)
          [] OTHER -> None] :
        has \in SUBSET {"Types", "URIs", "Suites", "Components"},
        e \in {None, Str(<<"yes">>), Str(<<"no">>)}}

\* ------------------------------------------------------------ state
\* given: what the caller supplied; pc: the operation last run;
\* line, lines, paragraphs: text inputs; the other variables hold outcomes
VARIABLES given, pc, line, lines, paragraphs, repository, formatted, reparsed,
          repositories, source, sources, stanza
vars == <<given, pc, line, lines, paragraphs, repository, formatted, reparsed,
          repositories, source, sources, stanza>>

\* the outcome of an operation that has not run
NotRun(dflt) == [exc |-> "not run", none |-> FALSE, val |-> dflt]

Init ==
    /\ pc = "input"
    /\ formatted = NotRun(<<>>)
    /\ reparsed = NotRun(NoLineInfo)
    /\ repositories = NotRun(<<>>)
    /\ sources = NotRun(<<>>)
    /\ stanza = NotRun(EmptyDeb822)
    /\ \/ /\ given = "line"
          /\ line \in Lines
          /\ lines = <<>> /\ paragraphs = <<>>
          /\ repository = NotRun(NoLineInfo) /\ source = NotRun(NoDeb822Info)
       \/ /\ given = "lines"
          /\ lines \in SeqsUpTo(BatchLines, MaxLines)
          /\ line = <<>> /\ paragraphs = <<>>
          /\ repository = NotRun(NoLineInfo) /\ source = NotRun(NoDeb822Info)
       \/ /\ given = "repository"
          /\ repository \in {Return(r) : r \in LineInfos}
          /\ line = <<>> /\ lines = <<>> /\ paragraphs = <<>>
          /\ source = NotRun(NoDeb822Info)
       \/ /\ given = "source"
          /\ source \in {Return(r) : r \in Deb822Infos}
          /\ line = <<>> /\ lines = <<>> /\ paragraphs = <<>>
          /\ repository = NotRun(NoLineInfo)
       \/ /\ given = "paragraphs"
          /\ paragraphs \in SeqsUpTo(Paragraphs, MaxParagraphs)
          /\ line = <<>> /\ lines = <<>>
          /\ repository = NotRun(NoLineInfo) /\ source = NotRun(NoDeb822Info)

\* repository = LineRepositoryInformation.from_line(line)
FromLine ==
    /\ given = "line" /\ pc = "input"
    /\ repository' = from_line(line)
    /\ pc' = "from_line"
    /\ UNCHANGED <<given, line, lines, paragraphs, formatted, reparsed, repositories,
                   source, sources, stanza>>

\* formatted = repository.to_line()
ToLine ==
    /\ \/ given = "line" /\ pc = "from_line"
       \/ given = "repository" /\ pc = "input"
    /\ Returned(repository)
    /\ formatted' = to_line(repository.val)
    /\ pc' = "to_line"
    /\ UNCHANGED <<given, line, lines, paragraphs, repository, reparsed, repositories,
                   source, sources, stanza>>

\* reparsed = LineRepositoryInformation.from_line(formatted)
FromLineAgain ==
    /\ pc = "to_line"
    /\ Returned(formatted)
    /\ reparsed' = from_line(formatted.val)
    /\ pc' = "from_line_again"
    /\ UNCHANGED <<given, line, lines, paragraphs, repository, formatted, repositories,
                   source, sources, stanza>>

\* repositories = LineRepositoryInformation.from_lists(lines)
FromLists ==
    /\ given = "lines" /\ pc = "input"
    /\ repositories' = from_lists(lines)
    /\ pc' = "from_lists"
    /\ UNCHANGED <<given, line, lines, paragraphs, repository, formatted, reparsed,
                   source, sources, stanza>>

\* source = Deb822RepositoryInformation.from_line_information(repository)
FromLineInformation ==
    /\ \/ given = "line" /\ pc = "from_line"
       \/ given = "repository" /\ pc = "input"
    /\ Returned(repository)
    /\ source' = Return(from_line_information(repository.val))
    /\ pc' = "from_line_information"
    /\ UNCHANGED <<given, line, lines, paragraphs, repository, formatted, reparsed,
                   repositories, sources, stanza>>

\* source = Deb822RepositoryInformation.from_deb822(paragraphs[0])
FromDeb822 ==
    /\ given = "paragraphs" /\ pc = "input"
    /\ paragraphs # <<>>
    /\ source' = from_deb822(paragraphs[1])
    /\ pc' = "from_deb822"
    /\ UNCHANGED <<given, line, lines, paragraphs, repository, formatted, reparsed,
                   repositories, sources, stanza>>

\* sources = Deb822RepositoryInformation.from_sources(paragraphs)
FromSources ==
    /\ given = "paragraphs" /\ pc = "input"
    /\ sources' = from_sources(paragraphs)
    /\ pc' = "from_sources"
    /\ UNCHANGED <<given, line, lines, paragraphs, repository, formatted, reparsed,
                   repositories, source, stanza>>

\* repositories = list(LineRepositoryInformation.from_deb822_information(source))
FromDeb822Information ==
    /\ \/ given = "source" /\ pc = "input"
       \/ pc \in {"from_line_information", "from_deb822"}
    /\ Returned(source)
    /\ repositories' = from_deb822_information(source.val)
    /\ pc' = "from_deb822_information"
    /\ UNCHANGED <<given, line, lines, paragraphs, repository, formatted, reparsed,
                   source, sources, stanza>>

\* stanza = source.to_deb822()
ToDeb822 ==
    /\ \/ given = "source" /\ pc = "input"
       \/ pc \in {"from_line_information", "from_deb822"}
    /\ Returned(source)
    /\ stanza' = to_deb822(source.val)
    /\ pc' = "to_deb822"
    /\ UNCHANGED <<given, line, lines, paragraphs, repository, formatted, reparsed,
                   repositories, source, sources>>

Next ==
    \/ FromLine
    \/ ToLine
    \/ FromLineAgain
    \/ FromLists
    \/ FromLineInformation
    \/ FromDeb822
    \/ FromSources
    \/ FromDeb822Information
    \/ ToDeb822

Spec == Init /\ [][Next]_vars

\* ------------------------------------------------------------ properties
StartsWith(s, prefix) == Len(s) >= Len(prefix) /\ SubSeq(s, 1, Len(prefix)) = prefix

IsList(x) == x.t = "list"

\* the stanza key of each optional attribute that has one
StanzaKey ==
    [enabled |-> "Enabled", architectures |-> "Architectures", languages |-> "Languages",
     targets |-> "Targets", pdiffs |-> "PDiffs", by_hash |-> "By-Hash",
     allow_insecure |-> "Allow-Insecure", allow_weak |-> "Allow-Weak",
     allow_downgrade_to_insecure |-> "Allow-Downgrade-To-Insecure",
     trusted |-> "Trusted", signed_by |-> "Signed-By",
     check_valid_until |-> "Check-Valid-Until", valid_until_min |-> "Valid-Until-Min",
     valid_until_max |-> "Valid-Until-Max", check_date |-> "Check-Date",
     date_max_future |-> "Date-Max-Future"]

\* C1: for every well-formed entry without an options block, from_line returns
\* a descriptor and to_line of that descriptor is the original line.
C1_FormatParseIdentity ==
    (given = "line" /\ line \in PlainLines /\ pc # "input")
        => /\ Returned(repository)
           /\ pc = "to_line" => formatted = Return(line)

\* C2: for every well-formed entry with an options block of recognized keys, the
\* hyphenated ones included, parsing the formatted line again gives a descriptor
\* equal in every field to the first parse.
C2_ReparseIdentical ==
    (given = "line" /\ line \in OptionLines /\ pc = "from_line_again")
        => reparsed = repository

\* C3: converting a line descriptor to a stanza descriptor and back gives exactly
\* one line descriptor, equal to the original in repo_type, uri, suite,
\* components, enabled and every optional field.
C3_LineStanzaLine ==
    (given \in {"line", "repository"} /\ pc = "from_deb822_information")
        => repositories = Return(<<repository.val>>)

\* C4: for a stanza descriptor whose repo_types, uris and suites are lists,
\* from_deb822_information gives |repo_types| x |uris| x |suites| line
\* descriptors, types outermost, uris in the middle, suites innermost, each
\* with the stanza's components.
C4_CartesianProduct ==
    (pc = "from_deb822_information" /\ IsList(source.val.repo_types)
       /\ IsList(source.val.uris) /\ IsList(source.val.suites))
        => LET T == source.val.repo_types.v
               U == source.val.uris.v
               S == source.val.suites.v
               R == repositories.val
           IN /\ Returned(repositories)
              /\ Len(R) = Len(T) * Len(U) * Len(S)
              /\ \A i \in 1..Len(R) : R[i].components = source.val.components
              /\ \A t \in 1..Len(T), u \in 1..Len(U), s \in 1..Len(S) :
                    LET r == R[((t - 1) * Len(U) + (u - 1)) * Len(S) + s]
                    IN r.repo_type = Str(T[t]) /\ r.uri = Str(U[u]) /\ r.suite = Str(S[s])

\* C4 witness: a stanza with two types, two uris and two suites was expanded
\* into eight line descriptors.
C4_Witness ==
    /\ pc = "from_deb822_information"
    /\ IsList(source.val.repo_types) /\ Len(source.val.repo_types.v) = 2
    /\ IsList(source.val.uris) /\ Len(source.val.uris.v) = 2
    /\ IsList(source.val.suites) /\ Len(source.val.suites.v) = 2
    /\ Returned(repositories) /\ Len(repositories.val) = 8

\* C5: from_line returns a descriptor for a well-formed line; it has
\* enabled = False when the line starts with "# ", and is_enabled() is true
\* when it does not.
C5_HashDisables ==
    (given = "line" /\ line \in WellFormedLines /\ pc = "from_line")
        => /\ Returned(repository)
           /\ IF StartsWith(line, <<"#", " ">>)
              THEN repository.val.enabled = Bool(FALSE)
              ELSE is_enabled(repository.val) = Bool(TRUE)

\* C6: from_lists raises nothing and returns, in input order, one descriptor for
\* each well-formed line; blank lines, lines with fewer than four tokens and
\* lines of an unrecognized type are left out.
C6_BatchSkipsMalformed ==
    pc = "from_lists"
        => LET good == SelectSeq(lines, LAMBDA l : l \in WellFormedLines)
           IN /\ repositories.exc = ""
              /\ Len(repositories.val) = Len(good)
              /\ \A i \in 1..Len(good) : Return(repositories.val[i]) = from_line(good[i])

\* C7: from_sources leaves out every paragraph that lacks Types, URIs, Suites or
\* Components, so each descriptor it returns has a non-empty list in
\* repo_types, uris, suites and components.
C7_NoHalfBuiltSource ==
    (pc = "from_sources" /\ sources.exc = "")
        => \A i \in 1..Len(sources.val) :
              \A k \in {"repo_types", "uris", "suites", "components"} :
                 IsList(sources.val[i][k]) /\ sources.val[i][k].v # <<>>

\* C8: to_deb822 always writes Types, URIs, Suites and Components, and writes
\* the key of an optional field exactly when the descriptor has the field.
C8_OptionalKeysWritten ==
    (pc = "to_deb822" /\ stanza.exc = "")
        => /\ \A k \in {"Types", "URIs", "Suites", "Components"} : stanza.val[k] # None
           /\ \A a \in DOMAIN StanzaKey :
                 (stanza.val[StanzaKey[a]] # None) <=> (source.val[a] # None)

\* C9: to_line writes the leading "# " exactly when is_enabled() is false; a
\* descriptor whose enabled is unset is formatted without it.
C9_HashIffDisabled ==
    (pc = "to_line" /\ formatted.exc = "")
        => (StartsWith(formatted.val, <<"#", " ">>) <=> ~Truthy(is_enabled(repository.val)))

\* C10: a paragraph that has its required fields and "Enabled: no" gives a stanza descriptor, and line
\* descriptors made from it, that are disabled (is_enabled() false, to_line
\* starting with "# "); with "Enabled: yes" or no Enabled key all are enabled.
C10_DisabledSurvives ==
    (given = "paragraphs" /\ pc = "from_deb822_information" /\ Returned(repositories)
       /\ \A k \in {"Types", "URIs", "Suites", "Components"} : paragraphs[1][k] # None)
        => LET off == paragraphs[1]["Enabled"] = Str(<<"no">>)
           IN /\ Truthy(is_enabled(source.val)) = ~off
              /\ \A i \in 1..Len(repositories.val) :
                    /\ Truthy(is_enabled(repositories.val[i])) = ~off
                    /\ to_line(repositories.val[i]).exc = ""
                         => StartsWith(to_line(repositories.val[i]).val, <<"#", " ">>) = off

====
